---- MODULE Spec2Model ----
(***************************************************************************)
(* Model of the ESP32 smart AC controller (src/src/main.cpp): the control  *)
(* cycle loop(), the MQTT command callback, the learning pass, the         *)
(* threshold policy and the EEPROM signal store.                           *)
(*                                                                         *)
(* Temperatures and humidities are in tenths of a unit (27.0 -> 270); a    *)
(* float is a record [nan, v].  Text payloads are sequences of byte codes. *)
(* Times are milliseconds as millis() returns them.                         *)
(***************************************************************************)
EXTENDS Integers, Sequences, FiniteSets, TLC

\* ------------------------------------------------------------------ bounds
\* refused connection attempts explored in one stay in mqttReconnect
MaxRetries == 1
\* milliseconds that can pass between the two adjacent millis() reads of
\* the debouncer (lines 147 and 149)
MaxDrift == 1
\* number of entries of the long capture (the short one is Scenario A)
LongLen == 200

\* ------------------------------------------------------- program constants
EEPROM_SIZE == 1200
COOL_ADDR == 0
FAN_ADDR == 400
OFF_ADDR == 800
TEMP_HIGH == 270
TEMP_LOW == 230
debounceDelay == 200
UpdateInterval == 5000
RetryDelay == 1000
MsgSize == 128
CarrierKHz == 38
PassLength == 3
\* a byte of EEPROM that was never written (erased flash)
Erased == 255
Wrap16 == 65536
ByteRange == 256

HIGH == TRUE
LOW == FALSE
AUTO == TRUE
LEARN == FALSE

\* --------------------------------------------------------------- variables
\* The code keeps two timestamps, lastDebounceTime (line 143, the static
\* local that shadows line 65) and lastUpdate (line 194), and only ever uses
\* millis() minus one of them.  The model keeps these two differences, each
\* saturated just past the value it is compared with.
VARIABLES
  mode,             \* line 64: TRUE = AUTO, FALSE = LEARN
  step,             \* line 167: learnMode's static cursor
  eeprom,           \* the EEPROM_SIZE bytes opened by EEPROM.begin
  lastButtonState,  \* line 142
  sinceDebounce,    \* millis() - lastDebounceTime, at most debounceDelay + 1
  sinceUpdate,      \* millis() - lastUpdate, at most UpdateInterval
  connected,        \* mqtt.connected()
  retries,          \* refused attempts of the current stay in mqttReconnect
  ev,               \* calls made on the collaborators by the last handler run
  run,              \* accepted captures since the last command or toggle
  lastSave,         \* the arguments of the most recent saveIRData call
  stable,           \* the level the button last held for more than debounceDelay
  inbound,          \* the payloads mqtt.loop() delivered in the last cycle
  slotSave,         \* per slot, the arguments of its most recent saveIRData call
  sinceExec,        \* ms since the threshold policy last executed, -1 before the first
  gap               \* ms between the last two executions, -1 before the second

vars == <<mode, step, eeprom, lastButtonState, sinceDebounce, sinceUpdate,
          connected, retries, ev, run, lastSave, stable, inbound, slotSave,
          sinceExec, gap>>

Slots == <<COOL_ADDR, FAN_ADDR, OFF_ADDR>>
SlotAddrs == {COOL_ADDR, FAN_ADDR, OFF_ADDR}

Min(a, b) == IF a < b THEN a ELSE b

\* the two differences after ms more milliseconds
DebounceAge(age, ms) == Min(age + ms, debounceDelay + 1)
UpdateAge(age, ms) == Min(age + ms, UpdateInterval)

\* the time since the last execution of the policy after ms more
\* milliseconds, saturated like sinceUpdate; -1 while there was none
ExecAge(age, ms) == IF age = -1 THEN -1 ELSE Min(age + ms, UpdateInterval)

\* ------------------------------------------------------------------ floats
Num(v) == [nan |-> FALSE, v |-> v]
NaN == [nan |-> TRUE, v |-> 0]
\* mutant of FloatGE: a comparison that lets not-a-number through
FloatGE_NanPasses(x, c) == x.nan \/ x.v >= c

\* IEEE comparisons: false as soon as an operand is not a number
FloatGE(x, c) == ~x.nan /\ x.v >= c
FloatLE(x, c) == ~x.nan /\ x.v <= c

\* ------------------------------------------------------------------ EEPROM
\* eeprom maps the addresses written since the region was opened to their
\* bytes; every other byte of the region holds Erased.
\* EEPROM.read: a byte of the region, 0 outside it
EepromRead(mem, a) ==
  IF a \in DOMAIN mem THEN mem[a]
  ELSE IF a >= 0 /\ a < EEPROM_SIZE THEN Erased
  ELSE 0

\* two consecutive bytes, high byte first, as a uint16_t
Read16(mem, a) == (EepromRead(mem, a) * ByteRange + EepromRead(mem, a + 1)) % Wrap16

\* the highest address written, -1 when none is
MaxOf(S) == IF S = {} THEN -1 ELSE CHOOSE y \in S : \A z \in S : z <= y

\* number of leading 2-byte values of the entry at addr up to the last one
\* that touches a written byte
WrittenValues(mem, addr) ==
  LET last == MaxOf(DOMAIN mem)
  IN  IF last < addr + 2 THEN 0 ELSE (last - addr - 2) \div 2 + 1

\* The array sendIRData fills from the slot at addr (lines 246-249).  The
\* array has len entries; raw lists the first Min(len, WrittenValues), and
\* the entries after them, read from bytes never written, are left implicit.
ReadRaw(mem, addr, len) ==
  [i \in 1..Min(len, WrittenValues(mem, addr)) |-> Read16(mem, addr + 2 * i)]

\* entry i (from 1) of the array of a sendRaw call e
RawEntry(e, i) ==
  IF i <= Len(e.raw) THEN e.raw[i]
  ELSE ((IF e.addr + 2 * i < EEPROM_SIZE THEN Erased ELSE 0) * ByteRange
        + (IF e.addr + 2 * i + 1 < EEPROM_SIZE THEN Erased ELSE 0)) % Wrap16

\* the bytes saveIRData writes (lines 230-235); EEPROM.write narrows the
\* value to uint8_t and ignores an address outside the region
WriteEntry(mem, addr, rawbuf, len) ==
  LET top == Min(addr + 1 + 2 * len, EEPROM_SIZE - 1)
  IN  [a \in DOMAIN mem \cup (addr..top) |->
         IF a = addr THEN (len \div ByteRange) % ByteRange
         ELSE IF a = addr + 1 THEN len % ByteRange
         ELSE IF a >= addr + 2 /\ a <= top
           THEN LET i == (a - addr - 2) \div 2
                    v == rawbuf[i + 1]
                IN  IF (a - addr - 2) % 2 = 0 THEN (v \div ByteRange) % ByteRange
                    ELSE v % ByteRange
         ELSE mem[a]]

\* mqtt.publish("ac1/log", text)
Log(text) == [k |-> "log", text |-> text]

\* saveIRData (lines 228-241) on the machine state m
saveIRData(m, addr, rawbuf, len) ==
  [m EXCEPT !.eeprom = WriteEntry(m.eeprom, addr, rawbuf, len),
            !.ev = m.ev \o <<[k |-> "save", addr |-> addr, len |-> len,
                              raw |-> SubSeq(rawbuf, 1, len)],
                             Log("Saved values to EEPROM")>>]

\* sendIRData (lines 243-255)
sendIRData(m, addr) ==
  LET len == Read16(m.eeprom, addr)
      raw == ReadRaw(m.eeprom, addr, len)
  IN  [m EXCEPT !.ev = m.ev \o <<[k |-> "sendRaw", addr |-> addr, len |-> len,
                                  raw |-> raw, khz |-> CarrierKHz],
                                 Log("Sent IR from EEPROM")>>]

\* ------------------------------------------------------------ mqttCallback
CMD_COOL == <<99, 111, 111, 108>>
CMD_FAN == <<102, 97, 110>>
CMD_OFF == <<111, 102, 102>>
CMD_AUTO == <<97, 117, 116, 111>>
CMD_LEARN == <<108, 101, 97, 114, 110>>

\* the bytes the copy loop of line 79 puts into msg
Copied(payload) == SubSeq(payload, 1, Min(Len(payload), MsgSize - 1))

\* the C string strcmp and publish see in msg: the copied bytes up to the
\* first zero byte (line 80 puts one at index len)
CString(bytes) ==
  LET zeros == {i \in DOMAIN bytes : bytes[i] = 0}
  IN  IF zeros = {} THEN bytes
      ELSE SubSeq(bytes, 1, (CHOOSE i \in zeros : \A j \in zeros : i <= j) - 1)

\* the indices of msg that lines 79 and 80 write for a payload
MsgWrites(payload) ==
  (0 .. Min(Len(payload), MsgSize - 1) - 1) \cup {Len(payload)}

\* The bytes from msg[0] up to the zero byte of line 80.  A payload of
\* MsgSize bytes or more leaves msg[MsgSize - 1] as it was found and puts the
\* zero byte past the end of msg; every byte in between that the function did
\* not write holds junk, whatever the memory held before the call.
MsgBytes(payload, junk) ==
  Copied(payload) \o [i \in 1..(Len(payload) - (MsgSize - 1)) |-> junk]

MsgText(payload, junk) == CString(MsgBytes(payload, junk))

\* mutant of mqttCallback: "off" also leaves the learning mode
mqttCallback_OffLeavesLearn(m, payload) ==
  LET msg == MsgText(payload, m.junk)
      m1 == [m EXCEPT !.ev = m.ev \o <<[k |-> "echo", text |-> msg]>>]
  IN  IF msg = CMD_COOL THEN sendIRData(m1, COOL_ADDR)
      ELSE IF msg = CMD_FAN THEN sendIRData(m1, FAN_ADDR)
      ELSE IF msg = CMD_OFF THEN [sendIRData(m1, OFF_ADDR) EXCEPT !.mode = AUTO]
      ELSE IF msg = CMD_AUTO THEN [m1 EXCEPT !.mode = AUTO]
      ELSE IF msg = CMD_LEARN THEN [m1 EXCEPT !.mode = LEARN]
      ELSE m1

\* mutant of mqttCallback: "learn" also erases the store
mqttCallback_LearnErases(m, payload) ==
  LET msg == MsgText(payload, m.junk)
      m1 == [m EXCEPT !.ev = m.ev \o <<[k |-> "echo", text |-> msg]>>]
  IN  IF msg = CMD_COOL THEN sendIRData(m1, COOL_ADDR)
      ELSE IF msg = CMD_FAN THEN sendIRData(m1, FAN_ADDR)
      ELSE IF msg = CMD_OFF THEN sendIRData(m1, OFF_ADDR)
      ELSE IF msg = CMD_AUTO THEN [m1 EXCEPT !.mode = AUTO]
      ELSE IF msg = CMD_LEARN THEN [m1 EXCEPT !.mode = LEARN, !.eeprom = <<>>]
      ELSE m1

\* mqttCallback (lines 77-90)
mqttCallback(m, payload) ==
  LET msg == MsgText(payload, m.junk)
      m1 == [m EXCEPT !.ev = m.ev \o <<[k |-> "echo", text |-> msg]>>]
  IN  IF msg = CMD_COOL THEN sendIRData(m1, COOL_ADDR)
      ELSE IF msg = CMD_FAN THEN sendIRData(m1, FAN_ADDR)
      ELSE IF msg = CMD_OFF THEN sendIRData(m1, OFF_ADDR)
      ELSE IF msg = CMD_AUTO THEN [m1 EXCEPT !.mode = AUTO]
      ELSE IF msg = CMD_LEARN THEN [m1 EXCEPT !.mode = LEARN]
      ELSE m1

\* --------------------------------------------------------------- learnMode
\* mutant of SlotAddr: the second and third slot exchanged
SlotAddr_Swapped(s) == <<COOL_ADDR, OFF_ADDR, FAN_ADDR>>[s + 1]

\* the slot a capture goes to at cursor s (lines 178-180)
SlotAddr(s) == Slots[s + 1]

\* line 181, on the cursor before the increment
PassComplete(s) == s + 1 >= PassLength

\* learnMode (lines 166-190); caps is <<>> when irrecv.decode returns false
\* and <<c>> when it returns a capture c.  c.known tells whether the decoder
\* matched a protocol (results.decode_type is not UNKNOWN); no line reads it.
learnMode(m, caps) ==
  IF caps = <<>> THEN m
  ELSE LET c == caps[1]
           m1 == [m EXCEPT !.ev = m.ev \o <<[k |-> "decode", len |-> c.len,
                                             known |-> c.known],
                                            Log("Received IR signal. Saving...")>>]
           m2 == IF m.step \in 0..2
                   THEN saveIRData(m1, SlotAddr(m.step), c.rawbuf, c.len)
                   ELSE m1
       IN  IF PassComplete(m.step)
             THEN [m2 EXCEPT !.ev = m2.ev \o <<Log("All signals saved. Switching to AUTO.")>>,
                             !.mode = AUTO,
                             !.step = 0]
             ELSE [m2 EXCEPT !.step = m.step + 1]

\* --------------------------------------------------------- autoControlMode
\* mutant of PolicyTargets: the thresholds exchanged and the else dropped
PolicyTargets_Overlapping(temp) ==
  (IF FloatGE(temp, TEMP_LOW) THEN <<COOL_ADDR>> ELSE <<>>)
    \o (IF FloatLE(temp, TEMP_HIGH) THEN <<FAN_ADDR>> ELSE <<>>)

\* mutant of PolicyTargets: the low branch replays the OFF slot
PolicyTargets_LowOff(temp) ==
  IF FloatGE(temp, TEMP_HIGH) THEN <<COOL_ADDR>>
  ELSE IF FloatLE(temp, TEMP_LOW) THEN <<OFF_ADDR>>
  ELSE <<>>

\* mutant of PolicyTargets: the high threshold itself does not trigger
PolicyTargets_Strict(temp) ==
  IF FloatGE(temp, TEMP_HIGH + 1) THEN <<COOL_ADDR>>
  ELSE IF FloatLE(temp, TEMP_LOW) THEN <<FAN_ADDR>>
  ELSE <<>>

\* the slots the decision of lines 213-224 replays for a temperature
PolicyTargets(temp) ==
  IF FloatGE(temp, TEMP_HIGH) THEN <<COOL_ADDR>>
  ELSE IF FloatLE(temp, TEMP_LOW) THEN <<FAN_ADDR>>
  ELSE <<>>

PolicyLog(addr) == IF addr = COOL_ADDR THEN "Sending COOL signal."
                   ELSE "Sending FAN signal."

\* mutant of HoldOff: the interval one millisecond short
HoldOff_Short(age) == age < UpdateInterval - 1

\* the hold-off of line 195, on millis() - lastUpdate
HoldOff(age) == age < UpdateInterval

\* the replays of lines 213-224, in order
RECURSIVE ReplayAll(_, _)
ReplayAll(m, targets) ==
  IF targets = <<>> THEN m
  ELSE ReplayAll(sendIRData([m EXCEPT !.ev = m.ev \o <<Log(PolicyLog(Head(targets)))>>],
                            Head(targets)),
                 Tail(targets))

\* autoControlMode (lines 193-225) with the sensor returning rd.  The text
\* of the first log line is built from a format with no arguments (line
\* 205) and is left unspecified.
autoControlMode(m, rd) ==
  IF HoldOff(m.sinceUpdate) THEN m
  ELSE ReplayAll([m EXCEPT !.sinceUpdate = 0,
                           !.ev = m.ev \o <<[k |-> "read", temp |-> rd.temp,
                                             hum |-> rd.hum],
                                            Log("Temp/Hum"),
                                            [k |-> "status", temp |-> rd.temp,
                                             hum |-> rd.hum]>>],
                 PolicyTargets(rd.temp))

\* ------------------------------------------------------------------ inputs
\* milliseconds between the button samples of two consecutive cycles
Dts == {0, UpdateInterval - 1, UpdateInterval}

\* payloads the broker delivers on ac1/cmd
Payloads == {CMD_COOL, CMD_FAN, CMD_OFF, CMD_AUTO, CMD_LEARN, <<120>>}

\* Scenario A's pulse train
ScenarioA == <<9000, 4500, 560, 560, 560, 1690>>

\* what irrecv.decode and getCorrectedRawLength hand to learnMode
Captures == { [len |-> Len(ScenarioA), rawbuf |-> ScenarioA, known |-> TRUE] }

\* a burst of noise: the decoder matches no protocol and reports it all the
\* same, with decode_type UNKNOWN
Garbled == [len |-> 2, rawbuf |-> <<120, 75>>, known |-> FALSE]

\* a capture of LongLen entries, every one different
LongCapture == [len |-> LongLen, rawbuf |-> [i \in 1..LongLen |-> Wrap16 - i],
                known |-> TRUE]

\* what dht.readTemperature and dht.readHumidity return
Readings ==
  {[temp |-> NaN, hum |-> NaN]} \cup
  {[temp |-> Num(t), hum |-> Num(400)] :
     t \in {TEMP_LOW - 1, TEMP_LOW, TEMP_LOW + 1, TEMP_HIGH - 1, TEMP_HIGH, TEMP_HIGH + 10}}

\* at most one element of S, as a sequence
Opt(S) == {<<>>} \cup {<<x>> : x \in S}

\* -------------------------------------------------------------------- Init
Init ==
  /\ mode = AUTO
  /\ step = 0
  /\ eeprom = <<>>
  /\ lastButtonState = HIGH
  /\ sinceDebounce = 0
  /\ sinceUpdate = 0
  /\ connected = FALSE
  /\ retries = 0
  /\ ev = <<>>
  /\ run = <<>>
  /\ lastSave = <<>>
  /\ stable = HIGH
  /\ inbound = <<>>
  /\ slotSave = [a \in SlotAddrs |-> <<>>]
  /\ sinceExec = -1
  /\ gap = -1

\* ----------------------------------------------------------- mqttReconnect
\* mutant of ConnectAccepted: the subscription left out
ConnectAccepted_NoSubscribe ==
  /\ ~connected
  /\ connected' = TRUE
  /\ retries' = 0
  /\ ev' = <<Log("MQTT connected and subscribed.")>>
  /\ inbound' = <<>>
  /\ UNCHANGED <<mode, step, eeprom, lastButtonState, sinceDebounce,
                 sinceUpdate, run, lastSave, stable, slotSave, sinceExec, gap>>

\* one pass of the while loop of lines 93-105 with the broker accepting
ConnectAccepted ==
  /\ ~connected
  /\ connected' = TRUE
  /\ retries' = 0
  /\ ev' = <<[k |-> "subscribe", topic |-> "ac1/cmd"],
             Log("MQTT connected and subscribed.")>>
  /\ inbound' = <<>>
  /\ UNCHANGED <<mode, step, eeprom, lastButtonState, sinceDebounce,
                 sinceUpdate, run, lastSave, stable, slotSave, sinceExec, gap>>

\* one pass with the broker refusing: delay(1000) and try again
ConnectRefused ==
  /\ ~connected
  /\ retries < MaxRetries
  /\ retries' = retries + 1
  /\ sinceDebounce' = DebounceAge(sinceDebounce, RetryDelay)
  /\ sinceUpdate' = UpdateAge(sinceUpdate, RetryDelay)
  /\ ev' = <<>>
  /\ inbound' = <<>>
  /\ sinceExec' = ExecAge(sinceExec, RetryDelay)
  /\ UNCHANGED <<mode, step, eeprom, lastButtonState, connected, run,
                 lastSave, stable, slotSave, gap>>

\* -------------------------------------------------------------------- loop
\* lines 149-150 on millis() - lastDebounceTime: the button inverts mode
ButtonFires(age, last, cur) == age > debounceDelay /\ last = HIGH /\ cur = LOW

\* lines 151-155
Toggle(m) ==
  [m EXCEPT !.mode = ~m.mode,
            !.ev = m.ev \o <<[k |-> "toggle"],
                             Log(IF ~m.mode THEN "Switched to AUTO CONTROL Mode"
                                 ELSE "Switched to LEARNING Mode")>>]

SaveEvents(e) == SelectSeq(e, LAMBDA x : x.k = "save")

Events(e, kind) == SelectSeq(e, LAMBDA x : x.k = kind)

\* the entry of run for the mode step from m0 to m1: one per accepted capture
RunEntries(m0, m1) ==
  IF Events(m1.ev, "decode") = <<>> THEN <<>>
  ELSE <<[saves |-> [i \in 1..Len(SaveEvents(m1.ev)) |->
                       [addr |-> SaveEvents(m1.ev)[i].addr,
                        len |-> SaveEvents(m1.ev)[i].len]],
          stepBefore |-> m0.step, modeAfter |-> m1.mode,
          stepAfter |-> m1.step]>>

\* mutant of Dispatch: the policy step also runs after the capture step
Dispatch_Both(m, caps, rd) ==
  IF ~m.mode THEN autoControlMode(learnMode(m, caps), rd)
  ELSE autoControlMode(m, rd)

\* lines 161-162: the mode step of the cycle
Dispatch(m, caps, rd) ==
  IF ~m.mode THEN learnMode(m, caps) ELSE autoControlMode(m, rd)

\* what the surroundings do to one cycle: junk is the byte the stack holds
\* where msg is placed, lost tells that mqtt.loop() (line 140) finds the
\* connection gone, which line 139 only sees in the next cycle
Quiet == [junk |-> 0, lost |-> FALSE]

\* loop() (lines 138-163) once the command channel is connected: dt ms after
\* the previous cycle, mqtt.loop() delivering msgs, the button reading btn,
\* d ms passing between lines 147 and 149, the capture capability offering
\* one of capSet and the sensor one of rdSet.  dt runs from line 147 of one
\* cycle to line 147 of the next, and line 195 reads the time of line 147.
loop(dt, msgs, btn, d, capSet, rdSet, env) ==
  LET changed == btn # lastButtonState
      \* millis() - lastDebounceTime at line 149
      age == IF changed THEN d ELSE DebounceAge(sinceDebounce, dt)
      fires == ButtonFires(age, lastButtonState, btn)
      m0 == [mode |-> mode, step |-> step, eeprom |-> eeprom,
             sinceUpdate |-> UpdateAge(sinceUpdate, dt),
             ev |-> IF env.lost THEN <<[k |-> "lost"]>> ELSE <<>>,
             junk |-> env.junk]
  IN  \E m2 \in {LET m1 == IF msgs = <<>> THEN m0 ELSE mqttCallback(m0, msgs[1])
                 IN  IF fires THEN Toggle(m1) ELSE m1} :
      \E caps \in (IF m2.mode = LEARN THEN Opt(capSet) ELSE {<<>>}) :
      \E rd \in (IF m2.mode = AUTO /\ ~HoldOff(m2.sinceUpdate)
                   THEN rdSet ELSE {[temp |-> NaN, hum |-> NaN]}) :
      \E m3 \in {Dispatch(m2, caps, rd)} :
      \E saves \in {SaveEvents(m3.ev)} :
      \E executed \in {Events(m3.ev, "read") # <<>>} :
        /\ mode' = m3.mode
        /\ step' = m3.step
        /\ eeprom' = m3.eeprom
        /\ sinceUpdate' = m3.sinceUpdate
        /\ ev' = m3.ev
        /\ lastButtonState' = btn
        /\ sinceDebounce' = age
        /\ run' = (IF msgs # <<>> \/ fires THEN <<>> ELSE run)
                    \o RunEntries(m2, m3)
        /\ lastSave' = IF saves = <<>> THEN lastSave ELSE <<saves[Len(saves)]>>
        /\ stable' = IF age > debounceDelay THEN btn ELSE stable
        /\ inbound' = msgs
        /\ slotSave' = [a \in SlotAddrs |->
                          LET mine == SelectSeq(saves, LAMBDA x : x.addr = a)
                          IN  IF mine = <<>> THEN slotSave[a]
                              ELSE <<mine[Len(mine)]>>]
        /\ sinceExec' = IF executed THEN 0 ELSE ExecAge(sinceExec, dt)
        /\ gap' = IF executed /\ sinceExec # -1
                    THEN ExecAge(sinceExec, dt) ELSE gap
        /\ connected' = ~env.lost
        /\ UNCHANGED retries

Loop ==
  /\ connected
  /\ \E dt \in Dts, msgs \in Opt(Payloads), btn \in BOOLEAN :
     \E d \in (IF btn # lastButtonState THEN 0..MaxDrift ELSE {0}) :
       loop(dt, msgs, btn, d, Captures, Readings, Quiet)

Next == ConnectAccepted \/ ConnectRefused \/ Loop

Spec == Init /\ [][Next]_vars

\* ---------------------------------------------------- the store under load
\* The same program with captures that reach the end of the EEPROM region:
\* the broker accepts the first connection, cycles follow one another within
\* the hold-off and the button is not pressed.
StorePayloads == {CMD_LEARN, CMD_COOL, CMD_FAN, CMD_OFF}
StoreCaptures == Captures \cup {LongCapture}

LoopStore ==
  /\ connected
  /\ \E msgs \in Opt(StorePayloads) :
       loop(0, msgs, HIGH, 0, StoreCaptures, Readings, Quiet)

NextStore == ConnectAccepted \/ LoopStore

SpecStore == Init /\ [][NextStore]_vars

\* ------------------------------------------------- the program under stress
\* The same program with inputs the surroundings do not promise to keep
\* away: payloads with a zero byte inside or as long as msg, and captures
\* the decoder matched to no protocol.  Cycles follow one another within the
\* hold-off and the button is not pressed.
CoolNul == CMD_COOL \o <<0, 120>>
LongPayload == [i \in 1..MsgSize |-> 120]
InputPayloads == {CMD_COOL, CMD_AUTO, CMD_LEARN, <<120>>, CoolNul, LongPayload}
InputCaptures == Captures \cup {Garbled}

\* what msg[MsgSize - 1] can hold when the callback is entered
JunkBytes == {0, 33}

LoopInputs ==
  /\ connected
  /\ \E msgs \in Opt(InputPayloads) :
     \E junk \in (IF msgs # <<>> /\ Len(msgs[1]) >= MsgSize THEN JunkBytes ELSE {0}) :
       loop(0, msgs, HIGH, 0, InputCaptures, Readings,
            [junk |-> junk, lost |-> FALSE])

NextInputs == ConnectAccepted \/ LoopInputs

SpecInputs == Init /\ [][NextInputs]_vars

\* ------------------------------------------------ the connection going away
\* The same program on a link that can be lost at any time.  mqtt.loop()
\* finds the loss in the middle of a cycle; the broker refuses a bounded
\* number of attempts in a row and then accepts one, and loop() is called
\* again and again (the Arduino core never stops calling it).
ConnPayloads == {CMD_LEARN}

LoopConn ==
  /\ connected
  /\ \E lost \in BOOLEAN, btn \in BOOLEAN :
     \E msgs \in (IF lost THEN {<<>>} ELSE Opt(ConnPayloads)) :
       loop(UpdateInterval, msgs, btn, 0, Captures, Readings,
            [junk |-> 0, lost |-> lost])

NextConn == ConnectAccepted \/ ConnectRefused \/ LoopConn

SpecConn ==
  Init /\ [][NextConn]_vars /\ WF_vars(ConnectAccepted) /\ WF_vars(LoopConn)

\* ================================================================== claims
ReplayCmds == {CMD_COOL, CMD_FAN, CMD_OFF}
CmdAddr(text) == IF text = CMD_COOL THEN COOL_ADDR
                 ELSE IF text = CMD_FAN THEN FAN_ADDR ELSE OFF_ADDR

\* the sendRaw calls of e after position i
SendsAfter(e, i) == {j \in DOMAIN e : j > i /\ e[j].k = "sendRaw"}

\* C1 (as claimed): whenever mode is AUTO the learning cursor is at the
\* first slot, whatever switched the mode to AUTO.
C1_CursorZeroInAuto == mode = AUTO => step = 0

\* C2 (as claimed): a cycle in which the button level becomes stably LOW
\* after having been stably HIGH (one true HIGH-to-LOW transition) inverts
\* mode exactly once, and no other cycle inverts it.
C2_OneTogglePerTransition ==
  [][(stable = HIGH /\ stable' = LOW) <=> Len(Events(ev', "toggle")) = 1]_vars

\* C3: from cursor 0, consecutive accepted captures with no command or
\* toggle in between write COOL, FAN, OFF in this order, one slot per
\* capture; mode stays LEARN after the first and the second, and the third
\* leaves mode AUTO, the cursor at 0 and every slot holding the length of
\* its capture.
C3_LearnSequence ==
  (run # <<>> /\ run[1].stepBefore = 0) =>
    /\ Len(run) <= PassLength
    /\ \A i \in DOMAIN run :
         /\ Len(run[i].saves) = 1
         /\ run[i].saves[1].addr = Slots[i]
         /\ run[i].modeAfter = (IF i = PassLength THEN AUTO ELSE LEARN)
         /\ run[i].stepAfter = (IF i = PassLength THEN 0 ELSE i)
    /\ Len(run) = PassLength =>
         /\ mode = AUTO
         /\ step = 0
         /\ \A i \in DOMAIN run :
              /\ Slots[i] \in DOMAIN eeprom
              /\ Read16(eeprom, Slots[i]) = run[i].saves[1].len

C3_Witness == Len(run) = PassLength /\ run[1].stepBefore = 0

\* C4 (as claimed): the transmit capability is never called for a slot
\* whose entry has not been written.
C4_EmptySlotNotSent ==
  \A i \in DOMAIN ev : ev[i].k = "sendRaw" => ev[i].addr \in DOMAIN eeprom

\* C5 (as claimed): an execution of the threshold policy whose reading is
\* not a number publishes nothing on ac1/status.
C5_NoStatusOnInvalid ==
  \A i \in DOMAIN ev :
    (ev[i].k = "read" /\ ev[i].temp.nan) => Events(ev, "status") = <<>>

\* C6: an execution of the threshold policy whose temperature reading is
\* not a number replays no slot.
C6_NoReplayOnInvalid ==
  \A i \in DOMAIN ev :
    (ev[i].k = "read" /\ ev[i].temp.nan) => SendsAfter(ev, i) = {}

C6_Witness == \E i \in DOMAIN ev : ev[i].k = "read" /\ ev[i].temp.nan

\* C7 (as claimed): a replay of the slot written by the most recent
\* saveIRData hands the transmit capability the length and the values that
\* were written.
C7_RoundTrip ==
  \A i \in DOMAIN ev :
    (/\ ev[i].k = "sendRaw"
     /\ SaveEvents(ev) = <<>>
     /\ lastSave # <<>>
     /\ ev[i].addr = lastSave[1].addr)
    => /\ ev[i].len = lastSave[1].len
       /\ \A n \in 1..lastSave[1].len : RawEntry(ev[i], n) = lastSave[1].raw[n]

\* C8: one execution of the threshold policy on a valid reading replays at
\* most one slot, and none when TEMP_LOW < temperature < TEMP_HIGH.
C8_ThresholdExclusive ==
  \A i \in DOMAIN ev :
    (ev[i].k = "read" /\ ~ev[i].temp.nan) =>
      /\ Cardinality(SendsAfter(ev, i)) <= 1
      /\ (TEMP_LOW < ev[i].temp.v /\ ev[i].temp.v < TEMP_HIGH)
           => SendsAfter(ev, i) = {}

C8_Witness ==
  \E i \in DOMAIN ev :
    /\ ev[i].k = "read" /\ ~ev[i].temp.nan
    /\ TEMP_LOW < ev[i].temp.v /\ ev[i].temp.v < TEMP_HIGH

\* C9 (as claimed): a valid reading at or above TEMP_HIGH replays the COOL
\* slot and a valid reading at or below TEMP_LOW replays the OFF slot.
C9_LowReplaysOff ==
  \A i \in DOMAIN ev :
    (ev[i].k = "read" /\ ~ev[i].temp.nan) =>
      /\ ev[i].temp.v >= TEMP_HIGH =>
           {ev[j].addr : j \in SendsAfter(ev, i)} = {COOL_ADDR}
      /\ ev[i].temp.v <= TEMP_LOW =>
           {ev[j].addr : j \in SendsAfter(ev, i)} = {OFF_ADDR}

\* C9 (amended): a valid reading at or above TEMP_HIGH replays the COOL
\* slot and a valid reading at or below TEMP_LOW replays the FAN slot.
C9_LowReplaysFan ==
  \A i \in DOMAIN ev :
    (ev[i].k = "read" /\ ~ev[i].temp.nan) =>
      /\ ev[i].temp.v >= TEMP_HIGH =>
           {ev[j].addr : j \in SendsAfter(ev, i)} = {COOL_ADDR}
      /\ ev[i].temp.v <= TEMP_LOW =>
           {ev[j].addr : j \in SendsAfter(ev, i)} = {FAN_ADDR}

C9_Witness ==
  \E i \in DOMAIN ev :
    /\ ev[i].k = "read" /\ ~ev[i].temp.nan /\ ev[i].temp.v <= TEMP_LOW
    /\ SendsAfter(ev, i) # {}

\* C10: a cycle that receives "cool", "fan" or "off" calls the transmit
\* capability for that slot right after the echo, in LEARN as in AUTO; the
\* command leaves mode, cursor and store as they were: they are unchanged
\* by a cycle without a capture, and a capture of the same cycle finds
\* mode LEARN and is saved at the cursor the cycle started with.
C10_ReplayOverride ==
  [][(ev' # <<>> /\ ev'[1].k = "echo" /\ ev'[1].text \in ReplayCmds) =>
       /\ Len(ev') >= 2
       /\ ev'[2].k = "sendRaw"
       /\ ev'[2].addr = CmdAddr(ev'[1].text)
       /\ Events(ev', "toggle") = <<>>
       /\ Events(ev', "decode") = <<>> =>
            (mode' = mode /\ step' = step /\ eeprom' = eeprom)
       /\ Events(ev', "decode") # <<>> =>
            /\ mode = LEARN
            /\ Len(SaveEvents(ev')) = 1
            /\ SaveEvents(ev')[1].addr = SlotAddr(step)]_vars

C10_Witness ==
  /\ ev # <<>> /\ ev[1].k = "echo" /\ ev[1].text \in ReplayCmds
  /\ mode = LEARN /\ step = 1

\* C11 (as claimed): in LEARN mode a capture the decoder reports as not
\* decoded (unknown or garbled) is discarded: nothing is saved, the store
\* and the cursor stay as they were and the mode stays LEARN.
C11_GarbledDiscarded ==
  [][\A i \in DOMAIN ev' :
       (ev'[i].k = "decode" /\ ~ev'[i].known) =>
         /\ SaveEvents(ev') = <<>>
         /\ eeprom' = eeprom
         /\ step' = step
         /\ mode' = LEARN]_vars

Vocabulary == {CMD_COOL, CMD_FAN, CMD_OFF, CMD_AUTO, CMD_LEARN}

\* C12 (as claimed): every payload the callback handles is echoed exactly
\* once, and a payload outside the vocabulary is a no-op: the callback does
\* not transmit, and a cycle in which nothing but the callback acts leaves
\* mode, cursor and store as they were.
C12_UnknownIsNoOp ==
  [][inbound' # <<>> =>
       /\ Len(Events(ev', "echo")) = 1
       /\ inbound'[1] \notin Vocabulary =>
            /\ Len(ev') < 2 \/ ev'[2].k # "sendRaw"
            /\ Len(ev') = 1 => (mode' = mode /\ step' = step /\ eeprom' = eeprom)]_vars

\* C19 (as claimed): for every payload delivered to the callback, every
\* index of msg it writes, the terminating zero's included, is within
\* 0..MsgSize - 1.
C19_MsgIndicesInBounds ==
  inbound # <<>> => \A i \in MsgWrites(inbound[1]) : i \in 0..(MsgSize - 1)

\* the mode a cycle's mode step finds, from the mode before the cycle and
\* the cycle's events: the command echoed, then the button's inversion
AppliedMode(md, e) ==
  LET echoes == Events(e, "echo")
      cmd == IF echoes = <<>> THEN md
             ELSE IF echoes[1].text = CMD_AUTO THEN AUTO
             ELSE IF echoes[1].text = CMD_LEARN THEN LEARN
             ELSE md
  IN  IF Events(e, "toggle") = <<>> THEN cmd ELSE ~cmd

StepKinds == {"decode", "read"}

\* C13: in every cycle the command is handled before the button and the
\* button before the mode step; the capture step runs only if the mode is
\* LEARN after the cycle's command and toggle, the policy step only if it
\* is AUTO, never both, and no command is handled after the button or the
\* mode step of its cycle.
C13_CycleOrder ==
  [][/\ \A i, j \in DOMAIN ev' :
          \/ i < j
          \/ ~ \/ ev'[i].k = "echo" /\ ev'[j].k \in StepKinds \cup {"toggle"}
               \/ ev'[i].k = "toggle" /\ ev'[j].k \in StepKinds
     /\ Len(Events(ev', "echo")) <= 1
     /\ Events(ev', "decode") # <<>> => AppliedMode(mode, ev') = LEARN
     /\ Events(ev', "read") # <<>> => AppliedMode(mode, ev') = AUTO
     /\ Events(ev', "decode") = <<>> \/ Events(ev', "read") = <<>>]_vars

C13_Witness ==
  /\ ev # <<>>
  /\ ev[1].k = "echo"
  /\ ev[1].text = CMD_LEARN
  /\ Events(ev, "toggle") = <<>>
  /\ Events(ev, "decode") # <<>>

\* C14: two executions of the threshold policy are never less than
\* UpdateInterval ms apart, and the policy executes only in mode AUTO.
C14_PolicyHoldOff ==
  /\ gap = -1 \/ gap >= UpdateInterval
  /\ Events(ev, "read") # <<>> => mode = AUTO

C14_Witness == gap # -1 /\ Events(ev, "read") # <<>> /\ Events(ev, "echo") # <<>>

\* a valid reading at or above TEMP_HIGH / at or below TEMP_LOW in e
Hot(e) == \E i \in DOMAIN e : e[i].k = "read" /\ FloatGE(e[i].temp, TEMP_HIGH)
Cold(e) == \E i \in DOMAIN e : e[i].k = "read" /\ FloatLE(e[i].temp, TEMP_LOW)

\* the slots replayed after the reading of e
Replayed(e) ==
  {e[j].addr : j \in UNION {SendsAfter(e, i) : i \in {n \in DOMAIN e : e[n].k = "read"}}}

\* C15: the policy is a level trigger: an execution that reads a valid
\* temperature at or above TEMP_HIGH right after an execution that did and
\* replayed COOL replays COOL again, and likewise an execution that again
\* reads a temperature at or below TEMP_LOW replays again.
C15_LevelTrigger ==
  [][/\ (Hot(ev) /\ COOL_ADDR \in Replayed(ev) /\ Hot(ev')) =>
          COOL_ADDR \in Replayed(ev')
     /\ (Cold(ev) /\ Replayed(ev) # {} /\ Cold(ev')) =>
          Replayed(ev') = Replayed(ev)]_vars

C15_Witness == gap # -1 /\ Hot(ev) /\ COOL_ADDR \in Replayed(ev)

\* C16: the store changes only in a cycle whose mode step is the capture
\* step with a capture, the mode being LEARN after the cycle's command and
\* toggle; commands, toggles, replays and the policy leave it as it was.
C16_StoreWrittenInLearnOnly ==
  [][(Events(ev', "decode") = <<>> \/ AppliedMode(mode, ev') = AUTO) =>
       eeprom' = eeprom]_vars

C16_Witness == mode = LEARN /\ SaveEvents(ev) # <<>> /\ lastSave # <<>>

\* the sub-region of the slot at addr (lines 46-48)
SlotSize == FAN_ADDR - COOL_ADDR
SubRegion(addr) == addr .. (addr + SlotSize - 1)

\* C17 (as claimed): a save changes only bytes of the sub-region of the slot
\* it is called for, whatever length the capture step passes.
C17_SlotIsolation ==
  [][\A i \in DOMAIN ev' :
       ev'[i].k = "save" =>
         \A a \in DOMAIN eeprom' :
           (a \notin DOMAIN eeprom \/ eeprom'[a] # eeprom[a])
             => a \in SubRegion(ev'[i].addr)]_vars

\* C18 (as claimed): no replay reads a half-written entry: no sendRaw call
\* lies between a save and its completion, and the length a replay reads
\* from a slot comes with the values of the same write, the slot's latest.
C18_ReplayReadsOneWrite ==
  [][\A i \in DOMAIN ev' :
       (ev'[i].k = "sendRaw" /\ slotSave[ev'[i].addr] # <<>>) =>
         LET w == slotSave[ev'[i].addr][1]
         IN  /\ \A j \in DOMAIN ev' : ev'[j].k = "save" => i < j
             /\ ev'[i].len = w.len
             /\ \A n \in 1..w.len : RawEntry(ev'[i], n) = w.raw[n]]_vars

\* the events of the control cycle: command, button, capture, policy
ControlKinds == {"echo", "toggle", "decode", "save", "read", "status", "sendRaw"}

Suspended ==
  /\ UNCHANGED <<mode, step, eeprom, lastButtonState, stable>>
  /\ \A j \in DOMAIN ev' : ev'[j].k \notin ControlKinds

\* C20 (as claimed): while the command channel is disconnected no
\* control-cycle action runs: nothing of the control cycle follows the loss
\* of the connection, and every step taken while disconnected leaves mode,
\* cursor, store and button state as they were.
C20_NothingWhileDisconnected ==
  [][/\ \A i, j \in DOMAIN ev' :
          (ev'[i].k = "lost" /\ i < j) => ev'[j].k \notin ControlKinds
     /\ ~connected => Suspended]_vars

\* C20 (amended): from the start of a cycle that finds the channel
\* disconnected until the broker accepts a connection, no control-cycle
\* action runs and every refused attempt adds the fixed RetryDelay; the
\* accepted attempt subscribes to the command topic; and a disconnected
\* controller is eventually connected and subscribed, after which the
\* control cycle can run again.  (The rest of the cycle in which the loss
\* is found still runs.)
C20_ReconnectLoop ==
  /\ [][~connected => Suspended]_vars
  /\ [][(~connected /\ ~connected') =>
          /\ sinceUpdate' = UpdateAge(sinceUpdate, RetryDelay)
          /\ sinceDebounce' = DebounceAge(sinceDebounce, RetryDelay)]_vars
  /\ [][(~connected /\ connected') =>
          ev'[1] = [k |-> "subscribe", topic |-> "ac1/cmd"]]_vars
  /\ [](connected => ENABLED LoopConn)
  /\ (~connected ~> (connected /\ Events(ev, "subscribe") # <<>>))

C20_Witness ==
  /\ connected
  /\ Events(ev, "subscribe") # <<>>
  /\ (eeprom # <<>> \/ sinceExec # -1)

====
